---- MODULE Spec2Model ----
(***************************************************************************)
(* Audit-trail service: the three ledger queries of DatabaseManager        *)
(* (transaction history, fund-legitimacy trail, audit summary), the        *)
(* formatting / metrics / recommendation code of AuditService and the      *)
(* GET /api/audit/:userId route, over a ledger of users, transactions and  *)
(* currency conversions.                                                   *)
(*                                                                         *)
(* Numbers.  A numeric(10,2) amount is held in cents.  A conversion rate   *)
(* numeric(10,6) is held in millionths.  The product amount * rate, and    *)
(* every value PostgreSQL derives from one (balance impacts, running and   *)
(* calculated balances), is held exactly in units of 10^-8 ("fine" units): *)
(* Fine(a) lifts an amount of a cents to that scale.  parseFloat of a      *)
(* numeric string is taken to be exact.  Every column holds a value (no    *)
(* NULL amount, balance or rate).  The cast to numeric(10,2) raises        *)
(* "numeric field overflow" from 10^8 on: whether a product reaches that   *)
(* is decided on the amount in hundreds and the rate in hundredths, which  *)
(* is exact for the amounts and rates of the ledgers below.                *)
(* Time.  fulltimestamp and CURRENT_DATE are counted in months.            *)
(***************************************************************************)
EXTENDS Integers, Sequences, FiniteSets, TLC

VARIABLES
    users,                \* table users: userid -> [balance, currency]
    transactions,         \* table transactions, in table order
    currencyconversions,  \* table currencyconversions, in table order
    now,                  \* the time: CURRENT_DATE and new Date()
    budget,               \* the requests still to arrive
    pc,                   \* where the request being served is
    endpoint,             \* the route of the request: "audit" or "balance"
    param,                \* req.params.userId, a sequence of characters
    validUserId,          \* the id after parseInt and validateUserId
    reads,                \* the Ledger Store reads issued for the request
    rows,                 \* the rows of each read that has returned
    thrown,               \* the message of the error thrown for the request
    response,             \* what res.status(..).json(..) sent
    previous,             \* the request served before, with its response
    workingTable,         \* WITH RECURSIVE fund_trail: the working table
    trailTable,           \* WITH RECURSIVE fund_trail: the rows so far
    held,                 \* pool clients checked out by reads of other requests
    waiting,              \* the reads of the request queued for a pool client
    call,                 \* the arguments of a call of generateRecommendations
    recommendations       \* what the call returned

vars == <<users, transactions, currencyconversions, now, budget, pc, endpoint,
          param, validUserId, reads, rows, thrown, response, previous,
          workingTable, trailTable, held, waiting, call, recommendations>>

ledger == <<users, transactions, currencyconversions>>

traversal == <<workingTable, trailTable>>

pool == <<held, waiting>>

engine == <<call, recommendations>>

-----------------------------------------------------------------------------
(* Program constants *)

RateScale == 1000000
SixMonths == 6
RecursionDepth == 3
MaxDepthStatus == 10
MaxPathLength == 20
HistoryLimit == 100
TrailLimit == 20
Tolerance == 1
LegitimacyThreshold == 80
VolumeThreshold == 100
FrequencyThreshold == 10
FrequencyDays == 30
FrequencyPerDay == 5

NumericLimit == 100000000
\* new Pool({ max: 20 })
PoolMax == 20

NULL == 0 - 1

\* What stands for a value the cast to numeric(10,2) could not hold.
Overflow == 0 - 2

Fine(a) == a * RateScale

COALESCE(x, d) == IF x = NULL THEN d ELSE x

ABS(x) == IF x < 0 THEN 0 - x ELSE x

-----------------------------------------------------------------------------
(* Sequences of rows *)

\* The sequence s, with its elements evaluated once.
Rows(s) == s \o <<>>

RECURSIVE FlattenRange(_, _, _)
FlattenRange(ss, lo, hi) ==
    IF lo > hi THEN <<>>
    ELSE IF lo = hi THEN ss[lo]
    ELSE LET mid == (lo + hi) \div 2
         IN  FlattenRange(ss, lo, mid) \o FlattenRange(ss, mid + 1, hi)

\* The concatenation of a sequence of sequences.
Flatten(ss) == LET r == Rows(ss) IN FlattenRange(r, 1, Len(r))

RECURSIVE SumRange(_, _, _)
SumRange(s, lo, hi) ==
    IF lo > hi THEN 0
    ELSE IF lo = hi THEN s[lo]
    ELSE LET mid == (lo + hi) \div 2
         IN  SumRange(s, lo, mid) + SumRange(s, mid + 1, hi)

SumSeq(s) == LET r == Rows(s) IN SumRange(r, 1, Len(r))

First(n, s) == IF Len(s) <= n THEN s ELSE SubSeq(s, 1, n)

\* The rows of s ordered by ascending key[i]; rows with equal keys keep
\* the order they have in s.
OrderBy(s, key) ==
    LET n == Len(s)
        k == Rows(key)
        pos == Rows([i \in 1..n |->
                  Cardinality({j \in 1..n : k[j] < k[i]
                                            \/ (k[j] = k[i] /\ j < i)}) + 1])
        inv == Rows([p \in 1..n |-> CHOOSE i \in 1..n : pos[i] = p])
    IN  Rows([p \in 1..n |-> s[inv[p]]])

Range(s) == {s[i] : i \in 1..Len(s)}

\* PostgreSQL's cast of a fine-unit value to numeric(10,2): the nearest
\* cent, halves away from zero.
Numeric2(v) ==
    LET cents(x) == (x \div RateScale) + (IF 2 * (x % RateScale) >= RateScale THEN 1 ELSE 0)
    IN  IF v >= 0 THEN cents(v) ELSE 0 - cents(0 - v)

\* (amount * rate)::numeric(10,2) raises when the product, in currency
\* units, reaches 10^8.
NumericOverflow(amount, rate) ==
    (amount \div 10000) * (rate \div 10000) >= NumericLimit

\* The conversionrate column of the rows a LEFT JOIN currencyconversions
\* ON fromcurrency = from AND tocurrency = to yields: one entry per
\* matching row, or a single NULL when no row matches.
LeftJoinRates(from, to) ==
    LET match(cc) == cc.fromcurrency = from /\ cc.tocurrency = to
        m == SelectSeq(currencyconversions, match)
    IN  IF m = <<>> THEN <<NULL>> ELSE Rows([i \in 1..Len(m) |-> m[i].conversionrate])

-----------------------------------------------------------------------------
(* DatabaseManager.getUserTransactionHistory *)

\* user_transactions without the filter on status.
user_transactions_any_status(userId) ==
    IF userId \notin DOMAIN users THEN <<>>
    ELSE
      LET relevant(t) ==
            \/ (t.transactiontype \in {"deposit", "withdrawal"} /\ t.userid = userId)
            \/ (t.transactiontype = "transfer" /\ t.senderid = userId)
            \/ (t.transactiontype = "transfer" /\ t.receiverid = userId)
          sel == SelectSeq(transactions, relevant)
          ut == Rows([i \in 1..Len(sel) |->
                   sel[i] @@ [user_base_currency |-> users[userId].currency]])
      IN  OrderBy(ut, Rows([i \in 1..Len(ut) |-> ut[i].fulltimestamp]))

user_transactions(userId) ==
    IF userId \notin DOMAIN users THEN <<>>
    ELSE
      LET relevant(t) ==
            /\ \/ (t.transactiontype \in {"deposit", "withdrawal"} /\ t.userid = userId)
               \/ (t.transactiontype = "transfer" /\ t.senderid = userId)
               \/ (t.transactiontype = "transfer" /\ t.receiverid = userId)
            /\ t.status = "successful"
          sel == SelectSeq(transactions, relevant)
          ut == Rows([i \in 1..Len(sel) |->
                   sel[i] @@ [user_base_currency |-> users[userId].currency]])
      IN  OrderBy(ut, Rows([i \in 1..Len(ut) |-> ut[i].fulltimestamp]))

\* The CASE expression of transaction_impacts, for one row of
\* user_transactions joined with one conversion rate (or NULL).
balance_impact_base_currency(ut, rate, userId) ==
    CASE ut.transactiontype = "deposit" ->
           IF ut.receivercurrency = ut.user_base_currency
           THEN Fine(ut.receiveramount)
           ELSE ut.receiveramount * COALESCE(rate, RateScale)
      [] ut.transactiontype = "withdrawal" ->
           IF ut.sendercurrency = ut.user_base_currency
           THEN 0 - Fine(ut.senderamount)
           ELSE (0 - ut.senderamount) * COALESCE(rate, RateScale)
      [] ut.transactiontype = "transfer" /\ ut.senderid = userId ->
           IF ut.sendercurrency = ut.user_base_currency
           THEN 0 - Fine(ut.senderamount)
           ELSE (0 - ut.senderamount) * COALESCE(rate, RateScale)
      [] ut.transactiontype = "transfer" /\ ut.senderid # userId
                                         /\ ut.receiverid = userId ->
           IF ut.receivercurrency = ut.user_base_currency
           THEN Fine(ut.receiveramount)
           ELSE ut.receiveramount * COALESCE(rate, RateScale)
      [] OTHER -> 0

\* The conversionrate of the rows the LEFT JOIN of transaction_impacts
\* pairs with one row of user_transactions.
ImpactJoinRates(ut, userId) ==
    LET on(cc) ==
          \/ /\ ut.transactiontype = "deposit"
             /\ cc.fromcurrency = ut.receivercurrency
             /\ cc.tocurrency = ut.user_base_currency
          \/ /\ ut.transactiontype = "withdrawal"
             /\ cc.fromcurrency = ut.sendercurrency
             /\ cc.tocurrency = ut.user_base_currency
          \/ /\ ut.transactiontype = "transfer" /\ ut.senderid = userId
             /\ cc.fromcurrency = ut.sendercurrency
             /\ cc.tocurrency = ut.user_base_currency
          \/ /\ ut.transactiontype = "transfer" /\ ut.receiverid = userId
             /\ cc.fromcurrency = ut.receivercurrency
             /\ cc.tocurrency = ut.user_base_currency
        m == SelectSeq(currencyconversions, on)
    IN  IF m = <<>> THEN <<NULL>> ELSE Rows([i \in 1..Len(m) |-> m[i].conversionrate])

transaction_impacts(userId) ==
    LET uts == user_transactions(userId)
        joined(ut) ==
          LET rates == ImpactJoinRates(ut, userId)
          IN  Rows([k \in 1..Len(rates) |->
                 ut @@ [balance_impact_base_currency |->
                          balance_impact_base_currency(ut, rates[k], userId)]])
    IN  Flatten(([i \in 1..Len(uts) |-> joined(uts[i])]))

\* SUM(balance_impact_base_currency) OVER (ORDER BY fulltimestamp): the
\* default frame runs from the first row to the last peer of the current
\* row, so rows with the same fulltimestamp get the same sum.
running_balance(userId) ==
    LET ti == transaction_impacts(userId)
        upto(ts) == SumSeq(([j \in 1..Len(ti) |->
                              IF ti[j].fulltimestamp <= ts
                              THEN ti[j].balance_impact_base_currency ELSE 0]))
    IN  Rows([i \in 1..Len(ti) |->
           ti[i] @@ [running_balance |-> upto(ti[i].fulltimestamp)]])

getUserTransactionHistory(userId) ==
    LET rb == running_balance(userId)
        sorted == OrderBy(rb, Rows([i \in 1..Len(rb) |-> 0 - rb[i].fulltimestamp]))
        limited == First(HistoryLimit, sorted)
    IN  Rows([i \in 1..Len(limited) |->
           [transactionid |-> limited[i].transactionid,
            transactiontype |-> limited[i].transactiontype,
            fulltimestamp |-> limited[i].fulltimestamp,
            senderamount |-> limited[i].senderamount,
            receiveramount |-> limited[i].receiveramount,
            sendercurrency |-> limited[i].sendercurrency,
            receivercurrency |-> limited[i].receivercurrency,
            senderid |-> limited[i].senderid,
            receiverid |-> limited[i].receiverid,
            balance_impact_base_currency |-> limited[i].balance_impact_base_currency,
            running_balance |-> limited[i].running_balance,
            user_base_currency |-> limited[i].user_base_currency]])

-----------------------------------------------------------------------------
(* DatabaseManager.getFundLegitimacyTrail *)

\* CURRENT_DATE - INTERVAL '6 months'
TimeLimit == now - SixMonths

\* The non-recursive term of fund_trail.
TrailBaseCase(userId) ==
    LET incoming(t) ==
          /\ t.receiverid = userId
          /\ t.transactiontype = "transfer"
          /\ t.status = "successful"
          /\ t.fulltimestamp > TimeLimit
        sel == SelectSeq(transactions, incoming)
    IN  Rows([i \in 1..Len(sel) |->
           [transactionid |-> sel[i].transactionid,
            senderid |-> sel[i].senderid,
            receiverid |-> sel[i].receiverid,
            senderamount |-> sel[i].senderamount,
            receiveramount |-> sel[i].receiveramount,
            sendercurrency |-> sel[i].sendercurrency,
            receivercurrency |-> sel[i].receivercurrency,
            fulltimestamp |-> sel[i].fulltimestamp,
            transactiontype |-> sel[i].transactiontype,
            trail_depth |-> 1,
            transaction_path |-> <<sel[i].transactionid>>,
            user_path |-> <<sel[i].senderid, sel[i].receiverid>>,
            traced_amount |-> sel[i].receiveramount,
            traced_currency |-> sel[i].receivercurrency,
            is_original_source |-> FALSE]])

\* TrailJoinCondition without the comparison of the two timestamps.
TrailJoinConditionAnyTime(ft, t) ==
    /\ t.receiverid = ft.senderid
    /\ ft.trail_depth < RecursionDepth
    /\ t.status = "successful"
    /\ t.fulltimestamp > TimeLimit
    /\ ~(t.senderid \in Range(ft.user_path))
    /\ Len(ft.user_path) < MaxPathLength

\* TrailJoinCondition without the test on user_path.
TrailJoinConditionNoGuard(ft, t) ==
    /\ t.receiverid = ft.senderid
    /\ ft.trail_depth < RecursionDepth
    /\ t.status = "successful"
    /\ t.fulltimestamp <= ft.fulltimestamp
    /\ t.fulltimestamp > TimeLimit
    /\ Len(ft.user_path) < MaxPathLength

\* The WHERE clause of the recursive term, for a row ft of fund_trail and
\* a row t of transactions with t.receiverid = ft.senderid.
TrailJoinCondition(ft, t) ==
    /\ t.receiverid = ft.senderid
    /\ ft.trail_depth < RecursionDepth
    /\ t.status = "successful"
    /\ t.fulltimestamp <= ft.fulltimestamp
    /\ t.fulltimestamp > TimeLimit
    /\ ~(t.senderid \in Range(ft.user_path))
    /\ Len(ft.user_path) < MaxPathLength

\* The product is taken in two parts, the whole units of the rate first:
\* the sum is the product rounded to the cent, and each part stays within
\* 32 bits.
traced_amount(ft, t, rate) ==
    IF t.receivercurrency = ft.traced_currency
    THEN t.receiveramount
    ELSE IF NumericOverflow(t.receiveramount, COALESCE(rate, RateScale))
         THEN Overflow
         ELSE t.receiveramount * (COALESCE(rate, RateScale) \div RateScale)
              + Numeric2(t.receiveramount * (COALESCE(rate, RateScale) % RateScale))

\* TrailRecursiveCase with the transaction path started anew at each row.
TrailRecursiveCaseNewPath(ft) ==
    LET joins(t) == TrailJoinCondition(ft, t)
        sel == SelectSeq(transactions, joins)
        derived(t) ==
          LET rates == LeftJoinRates(t.receivercurrency, ft.traced_currency)
          IN  Rows([k \in 1..Len(rates) |->
                 [transactionid |-> t.transactionid,
                  senderid |-> t.senderid,
                  receiverid |-> t.receiverid,
                  senderamount |-> t.senderamount,
                  receiveramount |-> t.receiveramount,
                  sendercurrency |-> t.sendercurrency,
                  receivercurrency |-> t.receivercurrency,
                  fulltimestamp |-> t.fulltimestamp,
                  transactiontype |-> t.transactiontype,
                  trail_depth |-> ft.trail_depth + 1,
                  transaction_path |-> <<t.transactionid>>,
                  user_path |-> Append(ft.user_path, t.senderid),
                  traced_amount |-> traced_amount(ft, t, rates[k]),
                  traced_currency |-> ft.traced_currency,
                  is_original_source |-> (t.transactiontype = "deposit")]])
    IN  Flatten(([i \in 1..Len(sel) |-> derived(sel[i])]))

\* The rows the recursive term derives from one row ft of fund_trail.
TrailRecursiveCase(ft) ==
    LET joins(t) == TrailJoinCondition(ft, t)
        sel == SelectSeq(transactions, joins)
        derived(t) ==
          LET rates == LeftJoinRates(t.receivercurrency, ft.traced_currency)
          IN  Rows([k \in 1..Len(rates) |->
                 [transactionid |-> t.transactionid,
                  senderid |-> t.senderid,
                  receiverid |-> t.receiverid,
                  senderamount |-> t.senderamount,
                  receiveramount |-> t.receiveramount,
                  sendercurrency |-> t.sendercurrency,
                  receivercurrency |-> t.receivercurrency,
                  fulltimestamp |-> t.fulltimestamp,
                  transactiontype |-> t.transactiontype,
                  trail_depth |-> ft.trail_depth + 1,
                  transaction_path |-> Append(ft.transaction_path, t.transactionid),
                  user_path |-> Append(ft.user_path, t.senderid),
                  traced_amount |-> traced_amount(ft, t, rates[k]),
                  traced_currency |-> ft.traced_currency,
                  is_original_source |-> (t.transactiontype = "deposit")]])
    IN  Flatten(([i \in 1..Len(sel) |-> derived(sel[i])]))

\* One iteration of WITH RECURSIVE: the recursive term applied to the
\* working table.
TrailIterate(working) ==
    Flatten(([i \in 1..Len(working) |-> TrailRecursiveCase(working[i])]))

\* WITH RECURSIVE ... UNION ALL: the working table is replaced by what the
\* recursive term derives from it until it is empty.
RECURSIVE TrailClosure(_)
TrailClosure(working) ==
    IF working = <<>> THEN <<>>
    ELSE working \o TrailClosure(TrailIterate(working))

fund_trail(userId) == TrailClosure(TrailBaseCase(userId))

legitimacy_status(ft, trail) ==
    CASE ft.is_original_source -> "LEGITIMATE_DEPOSIT"
      [] ~ft.is_original_source /\ ft.trail_depth >= MaxDepthStatus -> "MAX_DEPTH_REACHED"
      [] /\ ~ft.is_original_source /\ ft.trail_depth < MaxDepthStatus
         /\ \E k \in 1..Len(trail) :
               /\ trail[k].senderid = ft.senderid
               /\ trail[k].is_original_source
               /\ trail[k].traced_currency = ft.traced_currency
           -> "TRACEABLE_TO_DEPOSIT"
      [] OTHER -> "UNVERIFIED_SOURCE"

\* legitimate_sources, for the rows trail of fund_trail.
legitimate_sources(trail) ==
    Rows([i \in 1..Len(trail) |->
       trail[i] @@ [legitimacy_status |-> legitimacy_status(trail[i], trail)]])

\* The final SELECT: ORDER BY trail_depth, fulltimestamp LIMIT 20
TrailSelect(trail) ==
    LET ls == legitimate_sources(trail)
        byTime == OrderBy(ls, Rows([i \in 1..Len(ls) |-> ls[i].fulltimestamp]))
        sorted == OrderBy(byTime, Rows([i \in 1..Len(byTime) |-> byTime[i].trail_depth]))
    IN  First(TrailLimit, sorted)

\* The statement fails when a row of fund_trail cannot be computed.
TrailRaises(trail) == \E i \in 1..Len(trail) : trail[i].traced_amount = Overflow

getFundLegitimacyTrail(userId) == TrailSelect(fund_trail(userId))

-----------------------------------------------------------------------------
(* DatabaseManager.getAuditSummary and userExists *)

user_summary(userId) ==
    IF userId \in DOMAIN users
    THEN <<[userid |-> userId,
            base_currency |-> users[userId].currency,
            current_balance |-> users[userId].balance]>>
    ELSE <<>>

\* The CASE expression summed by balance_calculation, for one joined row:
\* transaction t with the rates of cc1 .. cc4 (or NULL).
SummaryImpact(us, t, userId, cc1, cc2, cc3, cc4) ==
    CASE t.transactiontype = "deposit" ->
           IF t.receivercurrency = us.base_currency
           THEN Fine(t.receiveramount)
           ELSE t.receiveramount * COALESCE(cc1, RateScale)
      [] t.transactiontype = "withdrawal" ->
           IF t.sendercurrency = us.base_currency
           THEN 0 - Fine(t.senderamount)
           ELSE (0 - t.senderamount) * COALESCE(cc2, RateScale)
      [] t.transactiontype = "transfer" /\ t.senderid = userId ->
           IF t.sendercurrency = us.base_currency
           THEN 0 - Fine(t.senderamount)
           ELSE (0 - t.senderamount) * COALESCE(cc3, RateScale)
      [] t.transactiontype = "transfer" /\ t.senderid # userId
                                        /\ t.receiverid = userId ->
           IF t.receivercurrency = us.base_currency
           THEN Fine(t.receiveramount)
           ELSE t.receiveramount * COALESCE(cc4, RateScale)
      [] OTHER -> 0

\* COALESCE(SUM(..), 0) over user_summary LEFT JOIN table LEFT JOIN
\* cc1 .. cc4, filtered by status; table is the transactions table.
SumImpacts(table, us, userId) ==
    LET on(t) ==
          /\ \/ (t.transactiontype \in {"deposit", "withdrawal"} /\ t.userid = userId)
             \/ (t.transactiontype = "transfer" /\ t.senderid = userId)
             \/ (t.transactiontype = "transfer" /\ t.receiverid = userId)
          /\ t.status = "successful"
        sel == SelectSeq(table, on)
        perTransaction(t) ==
          LET r == LeftJoinRates(t.receivercurrency, us.base_currency)
              s == LeftJoinRates(t.sendercurrency, us.base_currency)
          IN  SumSeq(([a \in 1..Len(r) |->
                SumSeq([b \in 1..Len(s) |->
                  SumSeq([c \in 1..Len(s) |->
                    SumSeq([d \in 1..Len(r) |->
                      SummaryImpact(us, t, userId, r[a], s[b], s[c], r[d])])])])]))
    IN  SumSeq(([i \in 1..Len(sel) |-> perTransaction(sel[i])]))

\* balance_calculation seeded with the stored balance of the account.
balance_calculationSeeded(us, userId) ==
    Fine(us.current_balance) + SumImpacts(transactions, us, userId)

balance_calculation(us, userId) == SumImpacts(transactions, us, userId)

\* getAuditSummary with the tolerance taken inclusively.
getAuditSummaryInclusive(userId) ==
    LET uss == user_summary(userId)
    IN  Rows([i \in 1..Len(uss) |->
           LET calculated == balance_calculation(uss[i], userId)
           IN  [userid |-> uss[i].userid,
                base_currency |-> uss[i].base_currency,
                current_balance |-> uss[i].current_balance,
                calculated_balance |-> calculated,
                balance_status |->
                  IF ABS(Fine(uss[i].current_balance) - calculated) <= Fine(Tolerance)
                  THEN "BALANCED" ELSE "DISCREPANCY"]])

getAuditSummary(userId) ==
    LET uss == user_summary(userId)
    IN  Rows([i \in 1..Len(uss) |->
           LET calculated == balance_calculation(uss[i], userId)
           IN  [userid |-> uss[i].userid,
                base_currency |-> uss[i].base_currency,
                current_balance |-> uss[i].current_balance,
                calculated_balance |-> calculated,
                balance_status |->
                  IF ABS(Fine(uss[i].current_balance) - calculated) < Fine(Tolerance)
                  THEN "BALANCED" ELSE "DISCREPANCY"]])

userExists(userId) == userId \in DOMAIN users

-----------------------------------------------------------------------------
(* AuditService *)

\* Math.round(x * 100) / 100 of an amount x, kept in fine units:
\* Math.round takes halves towards plus infinity.
MathRound2(x) == Fine((2 * x + RateScale) \div (2 * RateScale))

\* Number.prototype.toFixed(2) of a non-negative amount, in cents.
toFixed2(x) == (2 * x + RateScale) \div (2 * RateScale)

\* A JavaScript number is an integer here: [nan |-> TRUE] is NaN.
NaN == [nan |-> TRUE, value |-> 0]
Num(n) == [nan |-> FALSE, value |-> n]

Digits == <<"0", "1", "2", "3", "4", "5", "6", "7", "8", "9">>
IsDigit(c) == \E d \in 1..Len(Digits) : Digits[d] = c
DigitValue(c) == (CHOOSE d \in 1..Len(Digits) : Digits[d] = c) - 1

RECURSIVE ParseDigits(_, _)
ParseDigits(str, acc) ==
    IF str = <<>> \/ ~IsDigit(Head(str)) THEN acc
    ELSE ParseDigits(Tail(str), 10 * acc + DigitValue(Head(str)))

\* parseInt(string): an optional sign, then the longest run of decimal
\* digits; NaN when there is no digit.  A string is a sequence of
\* characters.
parseInt(str) ==
    LET negative == str # <<>> /\ Head(str) = "-"
        signed == str # <<>> /\ Head(str) \in {"-", "+"}
        body == IF signed THEN Tail(str) ELSE str
    IN  IF body = <<>> \/ ~IsDigit(Head(body)) THEN NaN
        ELSE Num(IF negative THEN 0 - ParseDigits(body, 0) ELSE ParseDigits(body, 0))

\* Joi.number().integer().positive().required() on a number.
validateUserId(userId) ==
    IF userId.nan THEN [error |-> "Invalid user ID: must be a number"]
    ELSE IF userId.value <= 0
         THEN [error |-> "Invalid user ID: must be a positive number"]
         ELSE [error |-> "", value |-> userId.value]

formatTransactionHistory(txs) ==
    Rows([i \in 1..Len(txs) |->
       [transactionId |-> txs[i].transactionid,
        type |-> txs[i].transactiontype,
        timestamp |-> txs[i].fulltimestamp,
        senderAmount |-> txs[i].senderamount,
        receiverAmount |-> txs[i].receiveramount,
        senderCurrency |-> txs[i].sendercurrency,
        receiverCurrency |-> txs[i].receivercurrency,
        senderId |-> txs[i].senderid,
        receiverId |-> txs[i].receiverid,
        balanceImpact |-> txs[i].balance_impact_base_currency,
        runningBalance |-> txs[i].running_balance,
        baseCurrency |-> txs[i].user_base_currency]])

TrailKey(trail) == <<trail.senderid, trail.receiverid, trail.transactionid>>

\* formatFundTrail keeping, of the rows with one key, the last.
formatFundTrailLast(fundTrail) ==
    LET lastOfKey(i) ==
          \A j \in (i + 1)..Len(fundTrail) : TrailKey(fundTrail[j]) # TrailKey(fundTrail[i])
        kept == SelectSeq(Rows([i \in 1..Len(fundTrail) |-> i]), lastOfKey)
        values == Rows([k \in 1..Len(kept) |->
                     LET trail == fundTrail[kept[k]]
                     IN  [transactionId |-> trail.transactionid,
                          senderId |-> trail.senderid,
                          receiverId |-> trail.receiverid,
                          amount |-> trail.senderamount,
                          currency |-> trail.sendercurrency,
                          timestamp |-> trail.fulltimestamp,
                          trailDepth |-> trail.trail_depth,
                          transactionPath |-> trail.transaction_path,
                          userPath |-> trail.user_path,
                          legitimacyStatus |-> trail.legitimacy_status,
                          isOriginalSource |-> trail.is_original_source]])
    IN  OrderBy(values, Rows([k \in 1..Len(values) |-> values[k].trailDepth]))

formatFundTrail(fundTrail) ==
    LET firstOfKey(i) ==
          \A j \in 1..(i - 1) : TrailKey(fundTrail[j]) # TrailKey(fundTrail[i])
        kept == SelectSeq(Rows([i \in 1..Len(fundTrail) |-> i]), firstOfKey)
        values == Rows([k \in 1..Len(kept) |->
                     LET trail == fundTrail[kept[k]]
                     IN  [transactionId |-> trail.transactionid,
                          senderId |-> trail.senderid,
                          receiverId |-> trail.receiverid,
                          amount |-> trail.senderamount,
                          currency |-> trail.sendercurrency,
                          timestamp |-> trail.fulltimestamp,
                          trailDepth |-> trail.trail_depth,
                          transactionPath |-> trail.transaction_path,
                          userPath |-> trail.user_path,
                          legitimacyStatus |-> trail.legitimacy_status,
                          isOriginalSource |-> trail.is_original_source]])
    IN  OrderBy(values, Rows([k \in 1..Len(values) |-> values[k].trailDepth]))

\* formatAuditSummary filling in a summary of zeros when the query returned
\* no row.
formatAuditSummaryDefaulted(summaryRows) ==
    IF summaryRows = <<>>
    THEN [error |-> "",
          userId |-> 0,
          baseCurrency |-> "",
          currentBalance |-> 0,
          calculatedBalance |-> 0,
          balanceStatus |-> "BALANCED",
          balanceDiscrepancy |-> 0]
    ELSE LET summary == summaryRows[1]
         IN  [error |-> "",
              userId |-> summary.userid,
              baseCurrency |-> summary.base_currency,
              currentBalance |-> Fine(summary.current_balance),
              calculatedBalance |-> summary.calculated_balance,
              balanceStatus |-> summary.balance_status,
              balanceDiscrepancy |->
                ABS(Fine(summary.current_balance) - summary.calculated_balance)]

\* formatAuditSummary(auditSummary.rows[0]): rows[0] is undefined when the
\* query returned no row.
formatAuditSummary(summaryRows) ==
    IF summaryRows = <<>> THEN [error |-> "No audit summary data found"]
    ELSE LET summary == summaryRows[1]
         IN  [error |-> "",
              userId |-> summary.userid,
              baseCurrency |-> summary.base_currency,
              currentBalance |-> Fine(summary.current_balance),
              calculatedBalance |-> summary.calculated_balance,
              balanceStatus |-> summary.balance_status,
              balanceDiscrepancy |->
                ABS(Fine(summary.current_balance) - summary.calculated_balance)]

\* legitimacyScore with the percentage cut off instead of rounded.
legitimacyScoreFloor(legitimate, total) ==
    IF total > 0 THEN (100 * legitimate) \div total ELSE 100

\* fundTrail.length > 0 ? Math.round((legitimate / total) * 100) : 100
legitimacyScore(legitimate, total) ==
    IF total > 0 THEN (2 * 100 * legitimate + total) \div (2 * total) ELSE 100

calculateAuditMetrics(txs, fundTrail) ==
    LET isDeposit(tx) == tx.type = "deposit"
        isWithdrawal(tx) == tx.type = "withdrawal"
        isTransfer(tx) == tx.type = "transfer"
        deposits == SelectSeq(txs, isDeposit)
        withdrawals == SelectSeq(txs, isWithdrawal)
        transfers == SelectSeq(txs, isTransfer)
        sent(tx) == tx.balanceImpact < 0
        received(tx) == tx.balanceImpact > 0
        impacts(s) == SumSeq(([i \in 1..Len(s) |-> s[i].balanceImpact]))
        totalDeposited == impacts(deposits)
        totalWithdrawn == ABS(impacts(withdrawals))
        totalTransferred == ABS(impacts(SelectSeq(transfers, sent)))
        totalReceived == impacts(SelectSeq(transfers, received))
        isLegitimate(trail) ==
          trail.legitimacyStatus \in {"LEGITIMATE_DEPOSIT", "TRACEABLE_TO_DEPOSIT"}
        isUnverified(trail) == trail.legitimacyStatus = "UNVERIFIED_SOURCE"
        legitimateTrails == SelectSeq(fundTrail, isLegitimate)
        unverifiedTrails == SelectSeq(fundTrail, isUnverified)
    IN  [totalTransactions |-> Len(txs),
         transactionBreakdown |->
           [deposits |-> Len(deposits),
            withdrawals |-> Len(withdrawals),
            transfers |-> Len(transfers)],
         amountBreakdown |->
           [totalDeposited |-> MathRound2(totalDeposited),
            totalWithdrawn |-> MathRound2(totalWithdrawn),
            totalTransferred |-> MathRound2(totalTransferred),
            totalReceived |-> MathRound2(totalReceived)],
         fundLegitimacy |->
           [totalTrails |-> Len(fundTrail),
            legitimateTrails |-> Len(legitimateTrails),
            unverifiedTrails |-> Len(unverifiedTrails),
            legitimacyScore |->
              legitimacyScore(Len(legitimateTrails), Len(fundTrail))]]

\* generateRecommendations with the balance rule firing on any non-zero
\* difference of the two balances, and the other rules as they are.
generateRecommendationsAnyDifference(summary, metrics) ==
    LET discrepancy ==
          IF summary.balanceDiscrepancy > 0
          THEN <<[type |-> "CRITICAL",
                  message |-> <<"Balance discrepancy detected",
                                toFixed2(summary.balanceDiscrepancy),
                                summary.baseCurrency>>,
                  action |-> "Review all transactions"]>>
          ELSE <<>>
        legitimacy ==
          IF metrics.fundLegitimacy.legitimacyScore < LegitimacyThreshold
          THEN <<[type |-> "WARNING",
                  message |-> <<"Low fund legitimacy score",
                                metrics.fundLegitimacy.legitimacyScore, "%">>,
                  action |-> "Investigate unverified fund sources"]>>
          ELSE <<>>
        volume ==
          IF metrics.totalTransactions > VolumeThreshold
          THEN <<[type |-> "INFO",
                  message |-> <<"High transaction volume detected",
                                metrics.totalTransactions, "transactions">>,
                  action |-> "Consider additional monitoring"]>>
          ELSE <<>>
        withdrawal ==
          IF /\ summary.currentBalance > 0
             /\ 10 * (metrics.amountBreakdown.totalWithdrawn \div RateScale)
                  > 8 * (summary.currentBalance \div RateScale)
          THEN <<[type |-> "WARNING",
                  message |-> <<"High withdrawal-to-balance ratio detected", 0, "">>,
                  action |-> "Monitor for potential account closure"]>>
          ELSE <<>>
        frequency ==
          IF /\ metrics.totalTransactions > FrequencyThreshold
             /\ metrics.totalTransactions > FrequencyPerDay * FrequencyDays
          THEN <<[type |-> "INFO",
                  message |-> <<"High transaction frequency detected", 0, "">>,
                  action |-> "Consider velocity checks"]>>
          ELSE <<>>
        hasMultiCurrency == metrics.amountBreakdown.totalReceived > 0
        multiCurrency ==
          IF hasMultiCurrency /\ metrics.fundLegitimacy.legitimacyScore < 100
          THEN <<[type |-> "INFO",
                  message |-> <<"Multi-currency transactions with unverified sources detected",
                                0, "">>,
                  action |-> "Verify exchange rate accuracy"]>>
          ELSE <<>>
    IN  discrepancy \o legitimacy \o volume \o withdrawal \o frequency \o multiCurrency

\* generateRecommendations with the frequency rule firing from more than
\* 10 transactions, whatever the average per day.
generateRecommendationsAnyFrequency(summary, metrics) ==
    LET discrepancy ==
          IF summary.balanceStatus = "DISCREPANCY"
          THEN <<[type |-> "CRITICAL",
                  message |-> <<"Balance discrepancy detected",
                                toFixed2(summary.balanceDiscrepancy),
                                summary.baseCurrency>>,
                  action |-> "Review all transactions"]>>
          ELSE <<>>
        legitimacy ==
          IF metrics.fundLegitimacy.legitimacyScore < LegitimacyThreshold
          THEN <<[type |-> "WARNING",
                  message |-> <<"Low fund legitimacy score",
                                metrics.fundLegitimacy.legitimacyScore, "%">>,
                  action |-> "Investigate unverified fund sources"]>>
          ELSE <<>>
        volume ==
          IF metrics.totalTransactions > VolumeThreshold
          THEN <<[type |-> "INFO",
                  message |-> <<"High transaction volume detected",
                                metrics.totalTransactions, "transactions">>,
                  action |-> "Consider additional monitoring"]>>
          ELSE <<>>
        \* withdrawalRatio > 0.8, with withdrawalRatio = 0 unless
        \* currentBalance > 0
        withdrawal ==
          IF /\ summary.currentBalance > 0
             /\ 10 * (metrics.amountBreakdown.totalWithdrawn \div RateScale)
                  > 8 * (summary.currentBalance \div RateScale)
          THEN <<[type |-> "WARNING",
                  message |-> <<"High withdrawal-to-balance ratio detected", 0, "">>,
                  action |-> "Monitor for potential account closure"]>>
          ELSE <<>>
        \* totalTransactions / 30 > 5
        frequency ==
          IF metrics.totalTransactions > FrequencyThreshold
          THEN <<[type |-> "INFO",
                  message |-> <<"High transaction frequency detected", 0, "">>,
                  action |-> "Consider velocity checks"]>>
          ELSE <<>>
        hasMultiCurrency == metrics.amountBreakdown.totalReceived > 0
        multiCurrency ==
          IF hasMultiCurrency /\ metrics.fundLegitimacy.legitimacyScore < 100
          THEN <<[type |-> "INFO",
                  message |-> <<"Multi-currency transactions with unverified sources detected",
                                0, "">>,
                  action |-> "Verify exchange rate accuracy"]>>
          ELSE <<>>
    IN  discrepancy \o legitimacy \o volume \o withdrawal \o frequency \o multiCurrency


generateRecommendations(summary, metrics) ==
    LET discrepancy ==
          IF summary.balanceStatus = "DISCREPANCY"
          THEN <<[type |-> "CRITICAL",
                  message |-> <<"Balance discrepancy detected",
                                toFixed2(summary.balanceDiscrepancy),
                                summary.baseCurrency>>,
                  action |-> "Review all transactions"]>>
          ELSE <<>>
        legitimacy ==
          IF metrics.fundLegitimacy.legitimacyScore < LegitimacyThreshold
          THEN <<[type |-> "WARNING",
                  message |-> <<"Low fund legitimacy score",
                                metrics.fundLegitimacy.legitimacyScore, "%">>,
                  action |-> "Investigate unverified fund sources"]>>
          ELSE <<>>
        volume ==
          IF metrics.totalTransactions > VolumeThreshold
          THEN <<[type |-> "INFO",
                  message |-> <<"High transaction volume detected",
                                metrics.totalTransactions, "transactions">>,
                  action |-> "Consider additional monitoring"]>>
          ELSE <<>>
        \* withdrawalRatio > 0.8, with withdrawalRatio = 0 unless
        \* currentBalance > 0
        withdrawal ==
          IF /\ summary.currentBalance > 0
             /\ 10 * (metrics.amountBreakdown.totalWithdrawn \div RateScale)
                  > 8 * (summary.currentBalance \div RateScale)
          THEN <<[type |-> "WARNING",
                  message |-> <<"High withdrawal-to-balance ratio detected", 0, "">>,
                  action |-> "Monitor for potential account closure"]>>
          ELSE <<>>
        \* totalTransactions / 30 > 5
        frequency ==
          IF /\ metrics.totalTransactions > FrequencyThreshold
             /\ metrics.totalTransactions > FrequencyPerDay * FrequencyDays
          THEN <<[type |-> "INFO",
                  message |-> <<"High transaction frequency detected", 0, "">>,
                  action |-> "Consider velocity checks"]>>
          ELSE <<>>
        hasMultiCurrency == metrics.amountBreakdown.totalReceived > 0
        multiCurrency ==
          IF hasMultiCurrency /\ metrics.fundLegitimacy.legitimacyScore < 100
          THEN <<[type |-> "INFO",
                  message |-> <<"Multi-currency transactions with unverified sources detected",
                                0, "">>,
                  action |-> "Verify exchange rate accuracy"]>>
          ELSE <<>>
    IN  discrepancy \o legitimacy \o volume \o withdrawal \o frequency \o multiCurrency

-----------------------------------------------------------------------------
(* Errors and the responses of routes.js *)

\* An error message is a sequence of words.
NotFoundError(userId) == <<"User", "with", "ID", ToString(userId), "not", "found">>
InvalidUserIdError == <<"Invalid", "user", "ID:", "validation", "failed">>
NoSummaryError == <<"No", "audit", "summary", "data", "found">>
QueryTimeoutError == <<"Query", "timeout:", "exceeded", "10", "seconds">>
NumericOverflowError == <<"numeric", "field", "overflow">>
\* pool.query rejects with this after connectionTimeoutMillis without a client.
ConnectTimeoutError == <<"timeout", "exceeded", "when", "trying", "to", "connect">>

\* String.prototype.includes, on words.
includes(message, words) ==
    \E i \in 1..Len(message) :
       /\ i + Len(words) - 1 <= Len(message)
       /\ SubSeq(message, i, i + Len(words) - 1) = words

NoResponse == [status |-> 0]

\* generateRecommendations has not been called on its own.
NoCall == [made |-> FALSE]

\* The catch block of a route handler.
ErrorResponse(message) ==
    IF includes(message, <<"not", "found">>)
    THEN [status |-> 404, error |-> "User not found", code |-> "USER_NOT_FOUND"]
    ELSE IF includes(message, <<"Invalid", "user", "ID:">>)
         THEN [status |-> 400, error |-> "Validation error", code |-> "VALIDATION_ERROR"]
         ELSE [status |-> 500, error |-> "Internal server error", code |-> "INTERNAL_ERROR"]

InvalidParamResponse ==
    [status |-> 400, error |-> "Invalid user ID", code |-> "INVALID_USER_ID"]

SuccessResponse(data) ==
    [status |-> 200, success |-> TRUE, data |-> data, generatedAt |-> now]

\* generateFullAuditTrail after Promise.all: the report, or the error
\* formatAuditSummary throws.
AuditReport(historyRows, trailRows, summaryRows) ==
    LET formattedTransactions == formatTransactionHistory(historyRows)
        formattedFundTrail == formatFundTrail(trailRows)
        formattedSummary == formatAuditSummary(summaryRows)
        metrics == calculateAuditMetrics(formattedTransactions, formattedFundTrail)
    IN  IF formattedSummary.error # ""
        THEN [error |-> NoSummaryError]
        ELSE [error |-> <<>>,
              userId |-> validUserId,
              auditTimestamp |-> now,
              summary |-> formattedSummary,
              metrics |-> metrics,
              transactionHistory |-> formattedTransactions,
              fundLegitimacyTrail |-> formattedFundTrail,
              recommendations |-> generateRecommendations(formattedSummary, metrics)]

\* getSimpleBalance after the summary read.
BalanceReport(summaryRows) ==
    LET formattedSummary == formatAuditSummary(summaryRows)
    IN  IF formattedSummary.error # ""
        THEN [error |-> NoSummaryError]
        ELSE [error |-> <<>>, summary |-> formattedSummary]

Queries == {"getUserTransactionHistory", "getFundLegitimacyTrail", "getAuditSummary"}

\* What the database returns for read q when it runs it.
QueryResult(q, userId) ==
    CASE q = "getUserTransactionHistory" -> getUserTransactionHistory(userId)
      [] q = "getFundLegitimacyTrail" -> getFundLegitimacyTrail(userId)
      [] q = "getAuditSummary" -> getAuditSummary(userId)

\* The database fails read q instead of returning rows.
QueryRaises(q, userId) ==
    q = "getFundLegitimacyTrail" /\ TrailRaises(fund_trail(userId))

\* The reads of the request that were issued and have not returned.
Pending == {q \in Queries : q \in Range(reads) /\ q \notin DOMAIN rows}

\* The reads the request in progress awaits.
InFlight ==
    IF pc = "userExists" THEN {"userExists"}
    ELSE IF pc = "reading" THEN Pending ELSE {}

\* pool.query: a read runs on a client of the pool, which it keeps until
\* the database has answered it; with all PoolMax clients checked out the
\* read is queued for the next client released.
Running == InFlight \ waiting

\* Of the reads issued in this order with free clients left, those queued.
Queued(issued, free) == {issued[i] : i \in {j \in DOMAIN issued : j > free}}

\* What is left of the queue when a client is released: the read queued
\* first takes the client.
Dequeue(queue) ==
    {q \in queue : \E r \in queue :
        \E i, j \in DOMAIN reads : reads[i] = r /\ reads[j] = q /\ i < j}
-----------------------------------------------------------------------------
(* The ledgers the model starts from *)

MaxTimeSteps == 1
BulkSize == 101

Tx(id, type, user, ts, status, samount, ramount, scur, rcur, sender, receiver) ==
    [transactionid |-> id, transactiontype |-> type, userid |-> user,
     fulltimestamp |-> ts, status |-> status,
     senderamount |-> samount, receiveramount |-> ramount,
     sendercurrency |-> scur, receivercurrency |-> rcur,
     senderid |-> sender, receiverid |-> receiver]

\* Deposits and withdrawals carry senderid = receiverid = userid, as in
\* the sample data; transaction 5 is a deposit recorded with its funding
\* account as sender, transaction 7 a transfer of an account to itself,
\* transaction 9 a withdrawal in a foreign currency, transaction 15 a
\* transfer of 1,000,000.00 USD, transaction 16 a refund recorded like the
\* sample refund (senderid = receiverid = userid), transactions 17 and 18
\* reversals between two accounts.  Accounts 4 and 5 have no row in users.
Catalogue ==
    <<Tx(1, "deposit", 1, 7, "successful", 100, 100, "USD", "USD", 1, 1),
      Tx(2, "deposit", 2, 7, "successful", 100, 100, "KES", "KES", 2, 2),
      Tx(3, "transfer", 2, 9, "successful", 61, 30, "KES", "USD", 2, 1),
      Tx(4, "transfer", 1, 8, "successful", 20, 41, "USD", "KES", 1, 2),
      Tx(5, "deposit", 2, 8, "successful", 51, 51, "NGN", "NGN", 4, 2),
      Tx(6, "transfer", 3, 9, "failed", 70, 70, "USD", "USD", 3, 1),
      Tx(7, "transfer", 1, 8, "successful", 10, 21, "USD", "KES", 1, 1),
      Tx(8, "transfer", 3, 5, "successful", 2, 1, "USD", "KES", 3, 1),
      Tx(9, "withdrawal", 1, 9, "successful", 25, 25, "KES", "KES", 1, 1),
      Tx(10, "transfer", 3, 8, "successful", 11, 23, "USD", "KES", 3, 2),
      Tx(11, "transfer", 4, 7, "successful", 5, 5, "NGN", "NGN", 4, 3),
      Tx(12, "deposit", 1, 9, "pending", 33, 33, "USD", "USD", 1, 1),
      Tx(13, "transfer", 4, 9, "successful", 7, 7, "USD", "USD", 4, 1),
      Tx(14, "transfer", 5, 7, "successful", 3, 3, "NGN", "NGN", 5, 4),
      Tx(15, "transfer", 4, 8, "successful", 100000000, 100000000,
         "USD", "USD", 4, 3),
      Tx(16, "refund", 1, 9, "successful", 40, 40, "USD", "USD", 1, 1),
      Tx(17, "reversal", 1, 8, "successful", 15, 15, "USD", "USD", 1, 3),
      Tx(18, "reversal", 2, 9, "successful", 12, 6, "KES", "KES", 2, 1),
      Tx(19, "transfer", 4, 7, "successful", 7, 7, "USD", "USD", 4, 1)>>

Max(S) == CHOOSE x \in S : \A y \in S : y <= x

\* The audit is asked for three months after the latest catalogue entry.
StartTime == Max({Catalogue[i].fulltimestamp : i \in 1..Len(Catalogue)}) + 3

\* Each scene is a set of catalogue entries; a ledger holds any part of
\* one scene, in catalogue order.
Scenes ==
    {{1, 3, 4, 9}, {2, 3, 10, 11, 14}, {2, 3, 5, 13}, {1, 6, 8, 12},
     {1, 7, 8}, {3, 4, 7}, {9, 3, 5}, {2, 3, 10, 15}, {1, 3, 16, 17, 18},
     {4, 13, 14}, {3, 5, 13, 14}}

SceneLedgers ==
    {SelectSeq(Catalogue, LAMBDA t : t.transactionid \in part) :
        part \in UNION {SUBSET scene : scene \in Scenes}}

\* A high-volume account: n transfers from account 2 to account 1.
BulkLedger(n) ==
    Rows([i \in 1..n |->
       Tx(100 + i, "transfer", 2, 8 + (i % 2), "successful", 2, 1, "KES", "USD", 2, 1)])

\* The high-volume account with, besides, a transfer received from account
\* 4 earlier than the others, and the deposit account 4 made into account 2.
BusyLedger(n) == BulkLedger(n) \o <<Catalogue[5], Catalogue[19]>>

Ledgers == SceneLedgers \cup {BulkLedger(BulkSize), BusyLedger(BulkSize)}

Balances == {0 - 1, 0, 100, 101}

UsersTable(balance) ==
    (1 :> [balance |-> balance, currency |-> "USD"])
    @@ (2 :> [balance |-> balance, currency |-> "KES"])
    @@ (3 :> [balance |-> balance, currency |-> "USD"])

\* No rate is configured from or to NGN; USD -> USD is a configured pair;
\* USD -> KES is 150, as in the sample data.
ConversionsTable ==
    <<[fromcurrency |-> "KES", tocurrency |-> "USD", conversionrate |-> RateScale \div 2],
      [fromcurrency |-> "USD", tocurrency |-> "KES", conversionrate |-> 150 * RateScale],
      [fromcurrency |-> "USD", tocurrency |-> "USD", conversionrate |-> 3 * RateScale]>>

\* req.params.userId
Params ==
    {<<"1">>, <<"2">>, <<"9">>, <<"0">>, <<"-", "1">>, <<"a", "b", "c">>,
     <<"1", ".", "5">>}

Endpoints == {"audit", "balance"}

-----------------------------------------------------------------------------
(* The service *)

Init ==
    /\ \E balance \in Balances : users = UsersTable(balance)
    /\ transactions \in Ledgers
    /\ currencyconversions = ConversionsTable
    /\ now = StartTime
    /\ budget = 1
    /\ pc = "idle"
    /\ endpoint = "audit"
    /\ param = <<>>
    /\ validUserId = 0
    /\ reads = <<>>
    /\ rows = <<>>
    /\ thrown = <<>>
    /\ response = NoResponse
    /\ previous = <<>>
    /\ workingTable = <<>>
    /\ trailTable = <<>>
    /\ held = 0
    /\ waiting = {}
    /\ call = NoCall
    /\ recommendations = <<>>

\* GET /api/audit/:userId and GET /api/balance/:userId up to the first
\* await: parseInt, the NaN check, validateUserId, and db.userExists issued.
Request(e, p) ==
    /\ pc \in {"idle", "done"}
    /\ budget > 0
    /\ budget' = budget - 1
    /\ endpoint' = e
    /\ param' = p
    /\ previous' = IF pc = "done"
                   THEN <<[endpoint |-> endpoint, param |-> param, response |-> response]>>
                   ELSE previous
    /\ rows' = <<>>
    /\ LET userId == parseInt(p)
           valid == validateUserId(userId)
       IN  IF userId.nan
           THEN /\ thrown' = <<>>
                /\ response' = InvalidParamResponse
                /\ pc' = "done"
                /\ validUserId' = 0
                /\ reads' = <<>>
           ELSE IF valid.error # ""
                THEN /\ thrown' = InvalidUserIdError
                     /\ response' = ErrorResponse(InvalidUserIdError)
                     /\ pc' = "done"
                     /\ validUserId' = 0
                     /\ reads' = <<>>
                ELSE /\ thrown' = <<>>
                     /\ response' = NoResponse
                     /\ pc' = "userExists"
                     /\ validUserId' = valid.value
                     /\ reads' = <<"userExists">>
    /\ waiting' = IF pc' = "userExists"
                  THEN Queued(<<"userExists">>, PoolMax - held) ELSE {}
    /\ UNCHANGED <<engine, traversal, ledger, now, held>>

\* db.userExists returns: the request fails with not-found, or issues its
\* reads (the three of Promise.all, or the summary alone).
UserExistsReturns ==
    /\ pc = "userExists"
    /\ "userExists" \in Running
    /\ IF ~userExists(validUserId)
       THEN /\ thrown' = NotFoundError(validUserId)
            /\ response' = ErrorResponse(NotFoundError(validUserId))
            /\ pc' = "done"
            /\ reads' = reads
       ELSE /\ thrown' = thrown
            /\ response' = response
            /\ pc' = "reading"
            /\ reads' = IF endpoint = "audit"
                        THEN reads \o <<"getUserTransactionHistory",
                                        "getFundLegitimacyTrail", "getAuditSummary">>
                        ELSE reads \o <<"getAuditSummary">>
    /\ waiting' = IF userExists(validUserId)
                  THEN Queued(SubSeq(reads', 2, Len(reads')), PoolMax - held)
                  ELSE {}
    /\ UNCHANGED <<engine, traversal, ledger, now, budget, endpoint, param, validUserId, rows,
                   previous, held>>

\* The database runs one of the reads in flight and returns its rows.
QueryReturns(q) ==
    /\ pc = "reading"
    /\ q \in Running
    /\ ~QueryRaises(q, validUserId)
    /\ rows' = (q :> QueryResult(q, validUserId)) @@ rows
    /\ waiting' = Dequeue(waiting)
    /\ UNCHANGED <<engine, traversal, ledger, now, budget, pc, endpoint, param, validUserId, reads,
                   thrown, response, previous, held>>

\* The database fails one of the reads in flight: query() rethrows, the
\* request fails.
QueryFails(q) ==
    /\ pc = "reading"
    /\ q \in Running
    /\ QueryRaises(q, validUserId)
    /\ thrown' = NumericOverflowError
    /\ response' = ErrorResponse(NumericOverflowError)
    /\ pc' = "done"
    /\ held' = held + Cardinality(Running \ {q}) + Cardinality(waiting \ Dequeue(waiting))
    /\ waiting' = {}
    /\ UNCHANGED <<engine, traversal, ledger, now, budget, endpoint, param, validUserId, reads,
                   rows, previous>>

\* A read in flight loses the race against the 10 s timer of query():
\* the request fails.
QueryTimeout ==
    /\ Running # {}
    /\ thrown' = QueryTimeoutError
    /\ response' = ErrorResponse(QueryTimeoutError)
    /\ pc' = "done"
    /\ held' = held + Cardinality(Running)
    /\ waiting' = {}
    /\ UNCHANGED <<engine, traversal, ledger, now, budget, endpoint, param, validUserId, reads, rows,
                   previous>>

\* Respond with the stored balance of the account set to the calculated
\* balance of the summary as the report is sent.
RespondReconciling ==
    /\ pc = "reading"
    /\ Pending = {}
    /\ LET result ==
             IF endpoint = "audit"
             THEN AuditReport(rows["getUserTransactionHistory"],
                              rows["getFundLegitimacyTrail"],
                              rows["getAuditSummary"])
             ELSE BalanceReport(rows["getAuditSummary"])
       IN  /\ thrown' = result.error
           /\ response' = IF result.error # <<>>
                           THEN ErrorResponse(result.error)
                           ELSE SuccessResponse(result)
           /\ users' = IF result.error # <<>> THEN users
                       ELSE [users EXCEPT ![validUserId].balance =
                               result.summary.calculatedBalance \div RateScale]
    /\ pc' = "done"
    /\ UNCHANGED <<engine, traversal, transactions, currencyconversions, now, budget, endpoint,
                   param, validUserId, reads, rows, previous, pool>>

\* All reads have returned: the report is built and sent.
Respond ==
    /\ pc = "reading"
    /\ Pending = {}
    /\ LET result ==
             IF endpoint = "audit"
             THEN AuditReport(rows["getUserTransactionHistory"],
                              rows["getFundLegitimacyTrail"],
                              rows["getAuditSummary"])
             ELSE BalanceReport(rows["getAuditSummary"])
       IN  /\ thrown' = result.error
           /\ response' = IF result.error # <<>>
                           THEN ErrorResponse(result.error)
                           ELSE SuccessResponse(result)
    /\ pc' = "done"
    /\ UNCHANGED <<engine, traversal, ledger, now, budget, endpoint, param, validUserId, reads, rows,
                   previous, pool>>

\* Time moves on.
TimePasses ==
    /\ now < StartTime + MaxTimeSteps
    /\ now' = now + 1
    /\ UNCHANGED <<engine, traversal, ledger, budget, pc, endpoint, param, validUserId,
                   reads, rows, thrown, response, previous, pool>>

Next ==
    \/ \E e \in Endpoints, p \in Params : Request(e, p)
    \/ UserExistsReturns
    \/ \E q \in Queries : QueryReturns(q)
    \/ \E q \in Queries : QueryFails(q)
    \/ QueryTimeout
    \/ Respond
    \/ TimePasses

Spec == Init /\ [][Next]_vars

-----------------------------------------------------------------------------
(* Two requests in a row *)

RepeatLedgers ==
    {SelectSeq(Catalogue, LAMBDA t : t.transactionid \in part) :
        part \in SUBSET {3, 10, 11, 15}}

InitRepeat ==
    /\ users = UsersTable(0)
    /\ transactions \in RepeatLedgers
    /\ currencyconversions = ConversionsTable
    /\ now = StartTime
    /\ budget = 2
    /\ pc = "idle"
    /\ endpoint = "audit"
    /\ param = <<>>
    /\ validUserId = 0
    /\ reads = <<>>
    /\ rows = <<>>
    /\ thrown = <<>>
    /\ response = NoResponse
    /\ previous = <<>>
    /\ workingTable = <<>>
    /\ trailTable = <<>>
    /\ held = 0
    /\ waiting = {}
    /\ call = NoCall
    /\ recommendations = <<>>

SpecRepeat == InitRepeat /\ [][Next]_vars

-----------------------------------------------------------------------------
(* Requests whose reads may never be answered *)

MaxRequests == 8

\* A read has waited connectionTimeoutMillis for a client of the pool:
\* pool.query rejects, query() rethrows, the request fails.  The reads of
\* the request that run keep their clients.
ConnectTimeout ==
    /\ waiting # {}
    /\ thrown' = ConnectTimeoutError
    /\ response' = ErrorResponse(ConnectTimeoutError)
    /\ pc' = "done"
    /\ held' = held + Cardinality(Running)
    /\ waiting' = {}
    /\ UNCHANGED <<engine, traversal, ledger, now, budget, endpoint, param, validUserId, reads, rows,
                   previous>>

\* The database answers a read of another request, which may have stopped
\* waiting for it: its client goes back to the pool, to the read of the
\* request queued first if there is one.
OtherReadReturns ==
    /\ held > 0
    /\ IF waiting # {}
       THEN held' = held /\ waiting' = Dequeue(waiting)
       ELSE held' = held - 1 /\ waiting' = waiting
    /\ UNCHANGED <<engine, traversal, ledger, now, budget, pc, endpoint, param, validUserId, reads,
                   rows, thrown, response, previous>>

TimeoutLedgers ==
    {SelectSeq(Catalogue, LAMBDA t : t.transactionid \in part) : part \in {{}, {3}}}

TimeoutParams == {<<"1">>, <<"9">>}

InitTimeout ==
    /\ users = UsersTable(0)
    /\ transactions \in TimeoutLedgers
    /\ currencyconversions = ConversionsTable
    /\ now = StartTime
    /\ budget = MaxRequests
    /\ pc = "idle"
    /\ endpoint = "audit"
    /\ param = <<>>
    /\ validUserId = 0
    /\ reads = <<>>
    /\ rows = <<>>
    /\ thrown = <<>>
    /\ response = NoResponse
    /\ previous = <<>>
    /\ workingTable = <<>>
    /\ trailTable = <<>>
    /\ held = 0
    /\ waiting = {}
    /\ call = NoCall
    /\ recommendations = <<>>

NextTimeout ==
    \/ \E e \in Endpoints, p \in TimeoutParams : Request(e, p)
    \/ UserExistsReturns
    \/ \E q \in Queries : QueryReturns(q)
    \/ QueryTimeout
    \/ ConnectTimeout
    \/ Respond
    \/ OtherReadReturns

\* The timers of query() (10 s) and of the pool (connectionTimeoutMillis)
\* fire, and a request whose reads have all returned goes on to respond;
\* nothing makes the database answer a read.
SpecTimeout ==
    /\ InitTimeout
    /\ [][NextTimeout]_vars
    /\ WF_vars(QueryTimeout)
    /\ WF_vars(ConnectTimeout)
    /\ WF_vars(Respond)

-----------------------------------------------------------------------------
(* A request served while accounts are deleted *)

\* Another client of the database deletes the row of account u from users,
\* which the foreign key of transactions.userid allows when no transaction
\* was initiated by u.
AccountDeleted(u) ==
    /\ u \in DOMAIN users
    /\ \A i \in DOMAIN transactions : transactions[i].userid # u
    /\ users' = [v \in DOMAIN users \ {u} |-> users[v]]
    /\ UNCHANGED <<engine, traversal, transactions, currencyconversions, now, budget, pc,
                   endpoint, param, validUserId, reads, rows, thrown, response,
                   previous, pool>>

\* Transfers initiated by accounts 4 and 5: accounts 1, 2 and 3 may go.
DeletionLedgers ==
    {SelectSeq(Catalogue, LAMBDA t : t.transactionid \in part) :
        part \in SUBSET {11, 13, 14, 19}}

InitDeletion ==
    /\ users = UsersTable(100)
    /\ transactions \in DeletionLedgers
    /\ currencyconversions = ConversionsTable
    /\ now = StartTime
    /\ budget = 1
    /\ pc = "idle"
    /\ endpoint = "audit"
    /\ param = <<>>
    /\ validUserId = 0
    /\ reads = <<>>
    /\ rows = <<>>
    /\ thrown = <<>>
    /\ response = NoResponse
    /\ previous = <<>>
    /\ workingTable = <<>>
    /\ trailTable = <<>>
    /\ held = 0
    /\ waiting = {}
    /\ call = NoCall
    /\ recommendations = <<>>

NextDeletion ==
    \/ \E e \in Endpoints, p \in Params : Request(e, p)
    \/ UserExistsReturns
    \/ \E q \in Queries : QueryReturns(q)
    \/ QueryTimeout
    \/ Respond
    \/ \E u \in DOMAIN UsersTable(0) : AccountDeleted(u)

SpecDeletion == InitDeletion /\ [][NextDeletion]_vars

-----------------------------------------------------------------------------
(* generateRecommendations called on its own *)

MaxTransactions == 151

\* The arguments of the calls: a formatted summary and the metrics, with
\* the values on either side of each threshold of the rules.
Calls ==
    [made : {TRUE},
     summary :
       [balanceStatus : {"BALANCED", "DISCREPANCY"},
        balanceDiscrepancy : {Fine(2)},
        baseCurrency : {"USD"},
        currentBalance : {0, Fine(100)}],
     metrics :
       [totalTransactions :
          {0, FrequencyThreshold, FrequencyThreshold + 1, VolumeThreshold,
           VolumeThreshold + 1, FrequencyPerDay * FrequencyDays, MaxTransactions},
        amountBreakdown :
          [totalWithdrawn : {Fine(80), Fine(81)}, totalReceived : {0, Fine(1)}],
        fundLegitimacy :
          [legitimacyScore : {LegitimacyThreshold - 1, LegitimacyThreshold, 99, 100}]]]

InitRecommend ==
    /\ users = UsersTable(0)
    /\ transactions = <<>>
    /\ currencyconversions = ConversionsTable
    /\ now = StartTime
    /\ budget = 0
    /\ pc = "idle"
    /\ endpoint = "audit"
    /\ param = <<>>
    /\ validUserId = 0
    /\ reads = <<>>
    /\ rows = <<>>
    /\ thrown = <<>>
    /\ response = NoResponse
    /\ previous = <<>>
    /\ workingTable = <<>>
    /\ trailTable = <<>>
    /\ held = 0
    /\ waiting = {}
    /\ call \in Calls
    /\ recommendations = <<>>

\* this.generateRecommendations(summary, metrics) runs and returns.
Recommend ==
    /\ call.made
    /\ pc = "idle"
    /\ recommendations' = generateRecommendations(call.summary, call.metrics)
    /\ pc' = "returned"
    /\ UNCHANGED <<traversal, ledger, now, budget, endpoint, param, validUserId, reads,
                   rows, thrown, response, previous, pool, call>>

NextRecommend == Recommend

SpecRecommend == InitRecommend /\ [][NextRecommend]_vars

-----------------------------------------------------------------------------
(* A request served while other requests are *)

\* AuditService keeps no field and DatabaseManager keeps the pool alone
\* (one instance of each serves every request), so a request meets the
\* requests served at the same time in the pool only: their reads check
\* clients out and give them back.

\* A read of another request gets a client of the pool.
OtherRequestReads ==
    /\ held + Cardinality(Running) < PoolMax
    /\ held' = held + 1
    /\ UNCHANGED <<engine, traversal, ledger, now, budget, pc, endpoint, param, validUserId, reads,
                   rows, thrown, response, previous, waiting>>

ConcurrentLedgers ==
    {SelectSeq(Catalogue, LAMBDA t : t.transactionid \in part) :
        part \in {{}, {3}, {10, 15}}}

InitConcurrent ==
    /\ users = UsersTable(0)
    /\ transactions \in ConcurrentLedgers
    /\ currencyconversions = ConversionsTable
    /\ now = StartTime
    /\ budget = 1
    /\ pc = "idle"
    /\ endpoint = "audit"
    /\ param = <<>>
    /\ validUserId = 0
    /\ reads = <<>>
    /\ rows = <<>>
    /\ thrown = <<>>
    /\ response = NoResponse
    /\ previous = <<>>
    /\ workingTable = <<>>
    /\ trailTable = <<>>
    /\ held = 0
    /\ waiting = {}
    /\ call = NoCall
    /\ recommendations = <<>>

NextConcurrent ==
    \/ \E e \in Endpoints, p \in Params : Request(e, p)
    \/ UserExistsReturns
    \/ \E q \in Queries : QueryReturns(q)
    \/ \E q \in Queries : QueryFails(q)
    \/ QueryTimeout
    \/ ConnectTimeout
    \/ Respond
    \/ OtherRequestReads
    \/ OtherReadReturns

SpecConcurrent == InitConcurrent /\ [][NextConcurrent]_vars

-----------------------------------------------------------------------------
(* The fund_trail query, one iteration of WITH RECURSIVE at a time *)

InitTrail ==
    /\ users = UsersTable(0)
    /\ transactions \in SceneLedgers
    /\ currencyconversions = ConversionsTable
    /\ now \in StartTime..(StartTime + MaxTimeSteps)
    /\ budget = 1
    /\ pc = "idle"
    /\ endpoint = "audit"
    /\ param = <<>>
    /\ validUserId = 0
    /\ reads = <<>>
    /\ rows = <<>>
    /\ thrown = <<>>
    /\ response = NoResponse
    /\ previous = <<>>
    /\ workingTable = <<>>
    /\ trailTable = <<>>
    /\ held = 0
    /\ waiting = {}
    /\ call = NoCall
    /\ recommendations = <<>>

\* The statement starts: the non-recursive term fills the working table.
TrailStart(userId) ==
    /\ pc = "idle"
    /\ budget > 0
    /\ budget' = budget - 1
    /\ validUserId' = userId
    /\ reads' = <<"getFundLegitimacyTrail">>
    /\ workingTable' = TrailBaseCase(userId)
    /\ trailTable' = workingTable'
    /\ pc' = "iterating"
    /\ UNCHANGED <<engine, ledger, now, endpoint, param, rows, thrown, response, previous, pool>>

\* One iteration: the recursive term replaces the working table.
TrailStep ==
    /\ pc = "iterating"
    /\ workingTable # <<>>
    /\ ~TrailRaises(workingTable)
    /\ workingTable' = TrailIterate(workingTable)
    /\ trailTable' = trailTable \o workingTable'
    /\ UNCHANGED <<engine, ledger, now, budget, pc, endpoint, param, validUserId, reads,
                   rows, thrown, response, previous, pool>>

\* A row of the working table could not be computed: the statement fails.
TrailAbort ==
    /\ pc = "iterating"
    /\ TrailRaises(workingTable)
    /\ thrown' = NumericOverflowError
    /\ pc' = "returned"
    /\ UNCHANGED <<engine, traversal, ledger, now, budget, endpoint, param, validUserId,
                   reads, rows, response, previous, pool>>

\* The working table is empty: fund_trail is complete, and the statement
\* returns TrailResult.
TrailFinish ==
    /\ pc = "iterating"
    /\ workingTable = <<>>
    /\ pc' = "returned"
    /\ UNCHANGED <<engine, traversal, ledger, now, budget, endpoint, param, validUserId,
                   reads, rows, thrown, response, previous, pool>>

\* The rows of the final SELECT over the complete fund_trail.
TrailResult == TrailSelect(trailTable)

NextTrail ==
    \/ \E userId \in DOMAIN users : TrailStart(userId)
    \/ TrailStep
    \/ TrailAbort
    \/ TrailFinish

\* The database keeps executing a statement it has started.
SpecTrail ==
    /\ InitTrail
    /\ [][NextTrail]_vars
    /\ WF_vars(TrailStep)
    /\ WF_vars(TrailAbort)
    /\ WF_vars(TrailFinish)

-----------------------------------------------------------------------------
(* The reports served *)

\* A full audit report has been sent for account validUserId.
AuditServed == pc = "done" /\ endpoint = "audit" /\ response.status = 200

Report == response.data

TransactionOf(id) == CHOOSE t \in Range(transactions) : t.transactionid = id

NoRepeat(path) == \A i, j \in 1..Len(path) : path[i] = path[j] => i = j

IsLegitimate(node) ==
    node.legitimacyStatus \in {"LEGITIMATE_DEPOSIT", "TRACEABLE_TO_DEPOSIT"}

\* C1: in every audit report, the account path of every node of the
\* provenance trail, the seed nodes with their path <<sender, receiver>>
\* included, holds no account id twice, and the depth of every node is at
\* most 10.
C1_PathsAcyclicAndBounded ==
    AuditServed =>
      \A i \in DOMAIN Report.fundLegitimacyTrail :
        LET node == Report.fundLegitimacyTrail[i]
        IN  NoRepeat(node.userPath) /\ node.trailDepth <= MaxDepthStatus

\* C2 (Scenario C): when account X received a successful transfer from
\* another account Y and Y received a successful deposit no later than
\* that transfer, the audit report of X has a node for the transfer
\* classified TRACEABLE_TO_DEPOSIT and a node for the deposit classified
\* LEGITIMATE_DEPOSIT.
C2_ScenarioC ==
    AuditServed =>
      \A i, j \in DOMAIN transactions :
        LET transfer == transactions[i]
            deposit == transactions[j]
            trail == Report.fundLegitimacyTrail
        IN  ( /\ transfer.transactiontype = "transfer"
              /\ transfer.status = "successful"
              /\ transfer.receiverid = validUserId
              /\ transfer.senderid # validUserId
              /\ deposit.transactiontype = "deposit"
              /\ deposit.status = "successful"
              /\ deposit.receiverid = transfer.senderid
              /\ deposit.fulltimestamp <= transfer.fulltimestamp )
            => /\ \E k \in DOMAIN trail :
                    /\ trail[k].transactionId = transfer.transactionid
                    /\ trail[k].legitimacyStatus = "TRACEABLE_TO_DEPOSIT"
               /\ \E k \in DOMAIN trail :
                    /\ trail[k].transactionId = deposit.transactionid
                    /\ trail[k].legitimacyStatus = "LEGITIMATE_DEPOSIT"

\* C3 (reconciliation law): in every audit report, calculatedBalance is
\* the sum of the balanceImpact of the entries of transactionHistory,
\* whatever the number of transactions of the account.
C3_BalanceIsSumOfImpacts ==
    AuditServed =>
      Report.summary.calculatedBalance =
        SumSeq([i \in DOMAIN Report.transactionHistory |->
                  Report.transactionHistory[i].balanceImpact])

\* A report with a summary has been sent, by either route.
SummaryServed == pc = "done" /\ response.status = 200

Successful(table) == SelectSeq(table, LAMBDA t : t.status = "successful")

IsIntegerLiteral(str) ==
    LET body == IF str # <<>> /\ Head(str) \in {"-", "+"} THEN Tail(str) ELSE str
    IN  body # <<>> /\ \A i \in DOMAIN body : IsDigit(body[i])

\* C10: a request whose account id is not an integer or not positive is
\* answered with invalid input (400) and no Ledger Store read is issued;
\* a request for an absent account is answered with not found (404) after
\* the existence check and no other read.  Requests that a read timing
\* out fails (500) are left aside.
C10_ErrorPaths ==
    (pc = "done" /\ response.status # 500) =>
      /\ (~IsIntegerLiteral(param) \/ parseInt(param).value <= 0)
           => response.status = 400 /\ reads = <<>>
      /\ ( /\ IsIntegerLiteral(param)
           /\ parseInt(param).value > 0
           /\ parseInt(param).value \notin DOMAIN users )
           => response.status = 404 /\ reads = <<"userExists">>

\* C5 (idempotence): two audit requests for the same account against the
\* unchanged ledger, whenever they are issued, return reports equal in
\* transaction history, trail, summary, metrics and recommendations.
C5_Idempotent ==
    ( /\ AuditServed
      /\ previous # <<>>
      /\ previous[1].endpoint = "audit"
      /\ previous[1].param = param
      /\ previous[1].response.status = 200 )
    => LET before == previous[1].response.data
       IN  /\ Report.transactionHistory = before.transactionHistory
           /\ Report.fundLegitimacyTrail = before.fundLegitimacyTrail
           /\ Report.summary = before.summary
           /\ Report.metrics = before.metrics
           /\ Report.recommendations = before.recommendations

\* The sender of the transaction a row was derived for is an account the
\* path of the row it was derived from already held.
CyclicEdge(row) ==
    /\ row.trail_depth > 1
    /\ row.user_path[Len(row.user_path)]
         \in Range(SubSeq(row.user_path, 1, Len(row.user_path) - 1))

\* C7: the traversal never enqueues a cyclic edge, its rows stay within the
\* depth ceiling, and once started it returns, on every ledger, ledgers
\* with transfer cycles included.
C7_TraversalTerminates ==
    /\ [](\A i \in DOMAIN trailTable :
            ~CyclicEdge(trailTable[i]) /\ trailTable[i].trail_depth <= MaxDepthStatus)
    /\ (pc = "iterating") ~> (pc = "returned")

\* C7 witness: the traversal has returned on a ledger where a transfer
\* led back to an account of the path it would have extended.
C7_Witness ==
    /\ pc = "returned"
    /\ thrown = <<>>
    /\ \E i \in DOMAIN trailTable, j \in DOMAIN transactions :
         /\ transactions[j].transactiontype = "transfer"
         /\ TrailJoinConditionNoGuard(trailTable[i], transactions[j])
         /\ transactions[j].senderid \in Range(trailTable[i].user_path)
         /\ transactions[j].senderid # transactions[j].receiverid

\* The rate a conversion from one currency to another applies: the
\* configured one, 1 when none is configured.
RateFor(from, to) ==
    LET configured == {i \in DOMAIN currencyconversions :
                         /\ currencyconversions[i].fromcurrency = from
                         /\ currencyconversions[i].tocurrency = to}
    IN  IF configured = {} THEN RateScale
        ELSE currencyconversions[CHOOSE i \in configured : TRUE].conversionrate

\* C9: currency conversion never fails a request; each balance impact of
\* the history is the amount unchanged when the currencies are equal (even
\* when a rate row exists for the pair), else the amount multiplied by the
\* configured rate, or by 1 when none is configured; each traced amount of
\* the trail is the amount so converted, to the cent.
C9_ConversionNeverFails ==
    /\ thrown # NumericOverflowError
    /\ "getUserTransactionHistory" \in DOMAIN rows =>
         \A i \in DOMAIN rows["getUserTransactionHistory"] :
           LET tx == rows["getUserTransactionHistory"][i]
               base == users[validUserId].currency
               incoming == \/ tx.transactiontype = "deposit"
                           \/ tx.transactiontype = "transfer" /\ tx.senderid # validUserId
               amount == IF incoming THEN tx.receiveramount ELSE tx.senderamount
               currency == IF incoming THEN tx.receivercurrency ELSE tx.sendercurrency
               converted == IF currency = base THEN Fine(amount)
                            ELSE amount * RateFor(currency, base)
           IN  tx.balance_impact_base_currency =
                 IF incoming THEN converted ELSE 0 - converted
    /\ "getFundLegitimacyTrail" \in DOMAIN rows =>
         \A i \in DOMAIN rows["getFundLegitimacyTrail"] :
           LET ft == rows["getFundLegitimacyTrail"][i]
           IN  ft.traced_amount =
                 IF ft.receivercurrency = ft.traced_currency THEN ft.receiveramount
                 ELSE Numeric2(ft.receiveramount
                                 * RateFor(ft.receivercurrency, ft.traced_currency))

-----------------------------------------------------------------------------
(* The recommendations of a report *)

\* The findings of the report that are the balance-discrepancy finding.
CriticalFindings ==
    SelectSeq(Report.recommendations, LAMBDA r : r.type = "CRITICAL")

\* C11: the recommendations of an audit report hold a CRITICAL
\* balance-discrepancy finding exactly when summary.balanceStatus is
\* DISCREPANCY, whichever other rules fire; the finding is listed once and
\* no other rule produces a CRITICAL finding.
C11_CriticalIffDiscrepancy ==
    AuditServed =>
      /\ (CriticalFindings # <<>>) <=> (Report.summary.balanceStatus = "DISCREPANCY")
      /\ Len(CriticalFindings) <= 1
      /\ \A i \in 1..Len(CriticalFindings) :
            CriticalFindings[i].message[1] = "Balance discrepancy detected"

\* A report with a discrepancy in which two other rules fire as well.
C11_Witness ==
    /\ AuditServed
    /\ Report.summary.balanceStatus = "DISCREPANCY"
    /\ CriticalFindings # <<>>
    /\ Len(Report.recommendations) >= 3

-----------------------------------------------------------------------------
(* Balance impact by kind *)

\* The account takes part in transaction t in the role its kind gives it.
TakesPart(t, account) ==
    \/ t.transactiontype \in {"deposit", "withdrawal"} /\ t.userid = account
    \/ t.transactiontype = "refund" /\ t.receiverid = account
    \/ t.transactiontype \in {"transfer", "reversal"}
         /\ (t.senderid = account \/ t.receiverid = account)

\* The signed impact of t on the account, in its base currency: the
\* receiver amount added for a deposit, a refund, or a transfer or reversal
\* received; the sender amount subtracted for a withdrawal, or a transfer
\* or reversal sent.
SignedImpact(t, account) ==
    LET base == users[account].currency
        outgoing == \/ t.transactiontype = "withdrawal"
                    \/ t.transactiontype \in {"transfer", "reversal"}
                         /\ t.senderid = account
        amount == IF outgoing THEN t.senderamount ELSE t.receiveramount
        currency == IF outgoing THEN t.sendercurrency ELSE t.receivercurrency
        converted == IF currency = base THEN Fine(amount)
                     ELSE amount * RateFor(currency, base)
    IN  IF outgoing THEN 0 - converted ELSE converted

\* C12: in every audit report each history entry carries the signed impact
\* of its kind (deposit or refund received: plus the receiver amount;
\* withdrawal: minus the sender amount; transfer or reversal: minus the
\* sender amount for the sender, plus the receiver amount for the
\* receiver), no refund has a negative impact, and every successful
\* refund or reversal of the account is listed and counted in
\* calculatedBalance, which is the sum of the signed impacts of the
\* account's successful transactions.
C12_ImpactByKind ==
    AuditServed =>
      LET history == Report.transactionHistory
          mine == SelectSeq(transactions,
                            LAMBDA t : t.status = "successful" /\ TakesPart(t, validUserId))
      IN  /\ \A i \in DOMAIN history :
                /\ history[i].balanceImpact =
                     SignedImpact(TransactionOf(history[i].transactionId), validUserId)
                /\ history[i].type = "refund" => history[i].balanceImpact >= 0
          /\ Len(mine) <= HistoryLimit =>
               \A k \in DOMAIN mine :
                  mine[k].transactiontype \in {"refund", "reversal"} =>
                     \E i \in DOMAIN history :
                        history[i].transactionId = mine[k].transactionid
          /\ Report.summary.calculatedBalance =
               SumSeq([k \in DOMAIN mine |-> SignedImpact(mine[k], validUserId)])

-----------------------------------------------------------------------------
(* The breakdown by kind *)

\* The key of metrics.transactionBreakdown for each kind of transaction.
BreakdownKey ==
    [deposit |-> "deposits", withdrawal |-> "withdrawals", transfer |-> "transfers",
     refund |-> "refunds", reversal |-> "reversals"]

\* C13: in every audit report metrics.transactionBreakdown gives, for each
\* of the five kinds deposit, withdrawal, transfer, refund and reversal, a
\* count, equal to the number of entries of transactionHistory of that
\* kind.
C13_BreakdownByKind ==
    AuditServed =>
      \A kind \in DOMAIN BreakdownKey :
         LET breakdown == Report.metrics.transactionBreakdown
             ofKind == SelectSeq(Report.transactionHistory, LAMBDA tx : tx.type = kind)
         IN  /\ BreakdownKey[kind] \in DOMAIN breakdown
             /\ breakdown[BreakdownKey[kind]] = Len(ofKind)

-----------------------------------------------------------------------------
(* An account without transactions *)

\* The account of the request takes part in no successful transaction.
NoSuccessfulTransaction ==
    \A i \in DOMAIN transactions :
       TakesPart(transactions[i], validUserId) => transactions[i].status # "successful"

-----------------------------------------------------------------------------
(* Reads that are never answered *)

\* The request has ended while reads it had issued were unanswered.
EndedOnTimeout == pc = "done" /\ thrown = QueryTimeoutError

\* C15: a request whose read is never answered still ends, with a failure
\* and no report, and the service stays able to complete later requests:
\* a later request always has a read running on a connection to the Ledger
\* Store, and none is failed for want of one.
C15_TimeoutIsFatalToRequestOnly ==
    /\ (InFlight # {}) ~> (pc = "done")
    /\ [](EndedOnTimeout =>
            /\ response.status = 500
            /\ "data" \notin DOMAIN response)
    /\ [](InFlight # {} => Running # {})
    /\ [](thrown # ConnectTimeoutError)

-----------------------------------------------------------------------------
(* Requests served at the same time *)

\* What the route answers to the request when it is served alone, by a
\* database that answers its reads.
ServedAlone ==
    LET userId == parseInt(param)
        valid == validateUserId(userId)
        queries == IF endpoint = "audit" THEN Queries ELSE {"getAuditSummary"}
        result == IF endpoint = "audit"
                  THEN AuditReport(getUserTransactionHistory(valid.value),
                                   getFundLegitimacyTrail(valid.value),
                                   getAuditSummary(valid.value))
                  ELSE BalanceReport(getAuditSummary(valid.value))
    IN  IF userId.nan THEN InvalidParamResponse
        ELSE IF valid.error # "" THEN ErrorResponse(InvalidUserIdError)
        ELSE IF ~userExists(valid.value) THEN ErrorResponse(NotFoundError(valid.value))
        ELSE IF \E q \in queries : QueryRaises(q, valid.value)
             THEN ErrorResponse(NumericOverflowError)
        ELSE IF result.error # <<>> THEN ErrorResponse(result.error)
        ELSE SuccessResponse(result)

\* C16: over an unchanged ledger, a request served while reads of other
\* requests are in progress, in any interleaving with them, is answered as
\* it is when served alone (unless its own reads ran into the timer of
\* query(), which happens to a request served alone too).
C16_ServedAsAlone ==
    (pc = "done" /\ thrown # QueryTimeoutError) => response = ServedAlone

-----------------------------------------------------------------------------
(* The Ledger Store is only read *)

\* C17: no step of an audit or balance request, whether the request
\* succeeds or fails, changes the accounts (their stored balance
\* included), the transactions or the rate pairs.
C17_LedgerUnchanged ==
    [][/\ users' = users
       /\ transactions' = transactions
       /\ currencyconversions' = currencyconversions]_vars

\* A request answered with a report whose balances differ, after a request
\* that failed.
C17_Witness ==
    /\ previous # <<>>
    /\ previous[1].response.status \in {404, 500}
    /\ SummaryServed
    /\ Report.summary.balanceStatus = "DISCREPANCY"

-----------------------------------------------------------------------------
(* The seeds of the trail *)

\* The successful transfers received by the account of the request.
IncomingTransfers ==
    SelectSeq(transactions, LAMBDA t : /\ t.transactiontype = "transfer"
                                       /\ t.status = "successful"
                                       /\ t.receiverid = validUserId)

\* Row ft of the trail query is the seed of transfer t.
IsSeedOf(ft, t) ==
    /\ ft.transactionid = t.transactionid
    /\ ft.trail_depth = 1
    /\ ft.user_path = <<t.senderid, t.receiverid>>
    /\ ft.transaction_path = <<t.transactionid>>
    /\ ft.traced_currency = t.receivercurrency

\* C18: in every audit report each successful transfer received by the
\* audited account, whatever its timestamp and however many there are, is
\* a node of depth 1 with account path [sender, receiver], transaction
\* path [transactionId] and the receiver currency as tracing currency.
C18_SeedCompleteness ==
    AuditServed =>
      \A k \in DOMAIN IncomingTransfers :
         LET t == IncomingTransfers[k]
             trail == rows["getFundLegitimacyTrail"]
             nodes == Report.fundLegitimacyTrail
         IN  /\ \E i \in DOMAIN trail : IsSeedOf(trail[i], t)
             /\ \E i \in DOMAIN nodes :
                   /\ nodes[i].transactionId = t.transactionid
                   /\ nodes[i].trailDepth = 1
                   /\ nodes[i].userPath = <<t.senderid, t.receiverid>>
                   /\ nodes[i].transactionPath = <<t.transactionid>>

-----------------------------------------------------------------------------
(* The classification of the nodes *)

Classifications ==
    {"LEGITIMATE_DEPOSIT", "MAX_DEPTH_REACHED", "TRACEABLE_TO_DEPOSIT", "UNVERIFIED_SOURCE"}

\* Row ft of the result of the trail query is the node of a deposit.
IsDepositNode(ft) == TransactionOf(ft.transactionid).transactiontype = "deposit"

\* C19: every node of the trail returned carries one of the four
\* classifications: LEGITIMATE_DEPOSIT exactly when its transaction is a
\* deposit; and, for a node of another transaction below the ceiling,
\* TRACEABLE_TO_DEPOSIT exactly when some node of the result set with the
\* same senderId and the same tracing currency is a deposit node, and
\* UNVERIFIED_SOURCE otherwise.  The report shows each node with the
\* classification the query gave it.
C19_Classification ==
    AuditServed =>
      LET trail == rows["getFundLegitimacyTrail"]
          nodes == Report.fundLegitimacyTrail
      IN  /\ \A i \in DOMAIN trail :
                LET ft == trail[i]
                    peer == \E k \in DOMAIN trail :
                               /\ trail[k].senderid = ft.senderid
                               /\ trail[k].traced_currency = ft.traced_currency
                               /\ IsDepositNode(trail[k])
                IN  /\ ft.legitimacy_status \in Classifications
                    /\ (ft.legitimacy_status = "LEGITIMATE_DEPOSIT") <=> IsDepositNode(ft)
                    /\ (~IsDepositNode(ft) /\ ft.trail_depth < MaxDepthStatus) =>
                         ft.legitimacy_status =
                           IF peer THEN "TRACEABLE_TO_DEPOSIT" ELSE "UNVERIFIED_SOURCE"
          /\ \A j \in DOMAIN nodes :
                \E i \in DOMAIN trail :
                   /\ TrailKey(trail[i]) =
                        <<nodes[j].senderId, nodes[j].receiverId, nodes[j].transactionId>>
                   /\ trail[i].legitimacy_status = nodes[j].legitimacyStatus

-----------------------------------------------------------------------------
(* The depth ceiling *)

\* C20: the traversal halts at one depth ceiling, and every node of a
\* transaction other than a deposit whose depth has hit that ceiling is
\* classified MAX_DEPTH_REACHED: a chain the ceiling cut off is never
\* reported UNVERIFIED_SOURCE or TRACEABLE_TO_DEPOSIT.
C20_CeilingIsReported ==
    AuditServed =>
      \A i \in DOMAIN rows["getFundLegitimacyTrail"] :
         LET ft == rows["getFundLegitimacyTrail"][i]
         IN  /\ ft.trail_depth <= RecursionDepth
             /\ (ft.trail_depth = RecursionDepth /\ ~IsDepositNode(ft)) =>
                   ft.legitimacy_status = "MAX_DEPTH_REACHED"


-----------------------------------------------------------------------------
(* The direction of the chains *)

\* The transaction before the last one on the transaction path of a node.
ParentOf(node) == TransactionOf(node.transactionPath[Len(node.transactionPath) - 1])

\* C21: every node of the trail of depth greater than 1 is the node of a
\* successful transaction whose receiver is the sender of the parent node
\* and whose timestamp is at most the parent's; the timestamps never
\* increase along the transaction path of a node, from the depth-1
\* transaction outward.
C21_BackwardInTime ==
    AuditServed =>
      \A i \in DOMAIN Report.fundLegitimacyTrail :
         LET node == Report.fundLegitimacyTrail[i]
             path == node.transactionPath
         IN  /\ node.trailDepth > 1 =>
                  /\ TransactionOf(node.transactionId).status = "successful"
                  /\ node.receiverId = ParentOf(node).senderid
                  /\ node.timestamp <= ParentOf(node).fulltimestamp
             /\ \A k \in 1..(Len(path) - 1) :
                  TransactionOf(path[k + 1]).fulltimestamp
                    <= TransactionOf(path[k]).fulltimestamp

\* A report with a node of depth 3 older than its parent, while the sender
\* of some node received a transfer later than the node's transaction.
C21_Witness ==
    /\ AuditServed
    /\ \E i \in DOMAIN Report.fundLegitimacyTrail :
          LET node == Report.fundLegitimacyTrail[i]
          IN  /\ node.trailDepth = RecursionDepth
              /\ node.timestamp < ParentOf(node).fulltimestamp


-----------------------------------------------------------------------------
(* The order of the history and its running balance *)

\* C22: in every audit report transactionHistory is in ascending order of
\* timestamp, entries of one timestamp in ascending order of transaction
\* id; the running balance of the first entry is its balance impact, and
\* the running balance of every later entry is the running balance of the
\* entry before it plus its own balance impact, entries that share a
\* timestamp included.
C22_ChronologicalRunningBalance ==
    AuditServed =>
      LET history == Report.transactionHistory
      IN  /\ \A i, j \in DOMAIN history :
                i < j =>
                  \/ history[i].timestamp < history[j].timestamp
                  \/ /\ history[i].timestamp = history[j].timestamp
                     /\ history[i].transactionId < history[j].transactionId
          /\ \A i \in DOMAIN history :
                history[i].runningBalance =
                  history[i].balanceImpact
                    + (IF i = 1 THEN 0 ELSE history[i - 1].runningBalance)


-----------------------------------------------------------------------------
(* The amounts of the trail *)

\* The tracing currency of the path of a node: the receiver currency of
\* the depth-1 transfer of the path.
TracingCurrency(node) == TransactionOf(node.transactionPath[1]).receivercurrency

\* amount of currency from converted to currency to, in cents.
Convert(amount, from, to) ==
    IF from = to THEN amount
    ELSE amount * (RateFor(from, to) \div RateScale)
         + Numeric2(amount * (RateFor(from, to) % RateScale))

\* C23: every entry of the trail of an audit report gives, as its
\* currency, the tracing currency of its path and, as its amount, the
\* receiver amount of its transaction converted from the receiver currency
\* into that tracing currency; the entries of one path report one currency.
C23_TracedAmountReported ==
    AuditServed =>
      LET nodes == Report.fundLegitimacyTrail
      IN  /\ \A i \in DOMAIN nodes :
                LET t == TransactionOf(nodes[i].transactionId)
                IN  /\ nodes[i].currency = TracingCurrency(nodes[i])
                    /\ nodes[i].amount =
                         Convert(t.receiveramount, t.receivercurrency,
                                 TracingCurrency(nodes[i]))
          /\ \A i, j \in DOMAIN nodes :
                nodes[i].transactionPath[1] = nodes[j].transactionPath[1] =>
                  nodes[i].currency = nodes[j].currency


-----------------------------------------------------------------------------
(* The findings on volume and on currencies *)

\* The findings of recs whose message starts with label.
FindingsOf(recs, label) == SelectSeq(recs, LAMBDA r : r.message[1] = label)

\* C24: in every audit report of an account with more than 100 successful
\* relevant transactions, metrics.totalTransactions is more than 100 and
\* the recommendations hold the INFO finding on high transaction volume.
C24_HighVolumeReported ==
    (AuditServed /\ Len(user_transactions(validUserId)) > VolumeThreshold) =>
      /\ Report.metrics.totalTransactions > VolumeThreshold
      /\ \E i \in DOMAIN Report.recommendations :
            /\ Report.recommendations[i].type = "INFO"
            /\ Report.recommendations[i].message[1] = "High transaction volume detected"


\* Transaction t is a cross-currency transfer of the account.
IsCrossCurrencyTransfer(t, account) ==
    /\ t.transactiontype = "transfer"
    /\ t.status = "successful"
    /\ (t.senderid = account \/ t.receiverid = account)
    /\ t.sendercurrency # t.receivercurrency

\* C25: the recommendations of an audit report hold the INFO finding on
\* multi-currency transactions with unverified sources exactly when the
\* legitimacy score is below 100 and the transactions of the account
\* include a transfer whose sender currency differs from its receiver
\* currency.
C25_MultiCurrencyFinding ==
    AuditServed =>
      ( FindingsOf(Report.recommendations,
                   "Multi-currency transactions with unverified sources detected") # <<>>
        <=> /\ Report.metrics.fundLegitimacy.legitimacyScore < 100
            /\ \E i \in DOMAIN transactions :
                  IsCrossCurrencyTransfer(transactions[i], validUserId) )


-----------------------------------------------------------------------------
(* An account deleted during a request *)

\* The request passed the existence check and its summary read found no
\* row for the account.
GoneAtSummary ==
    /\ pc = "done"
    /\ Len(reads) > 1
    /\ "getAuditSummary" \in DOMAIN rows
    /\ rows["getAuditSummary"] = <<>>

\* C26: a request whose account passed the existence check and had no row
\* left when the summary was read ends with an error and without a report,
\* on both routes; every report sent holds the summary the query computed
\* for the account.
C26_DisappearedAccountSurfaced ==
    /\ GoneAtSummary =>
         /\ response.status = 500
         /\ response.code = "INTERNAL_ERROR"
         /\ "data" \notin DOMAIN response
    /\ (pc = "done" /\ response.status = 200) =>
         /\ rows["getAuditSummary"] # <<>>
         /\ Report.summary.userId = validUserId
         /\ Report.summary.calculatedBalance
              = rows["getAuditSummary"][1].calculated_balance
         /\ Report.summary.currentBalance
              = Fine(rows["getAuditSummary"][1].current_balance)

\* An audit of an account deleted after its trail was read and before its
\* summary was: the request failed for want of a summary.
C26_Witness ==
    /\ GoneAtSummary
    /\ endpoint = "audit"
    /\ thrown = NoSummaryError
    /\ rows["getFundLegitimacyTrail"] # <<>>
    /\ validUserId \notin DOMAIN users


-----------------------------------------------------------------------------
(* The trail without duplicates *)

NodeKey(node) == <<node.senderId, node.receiverId, node.transactionId>>

-----------------------------------------------------------------------------
(* The paths of the nodes *)

Last(path) == path[Len(path)]

\* C28: for every node of the trail, in the rows of the query and in the
\* report alike, the transaction path has as many entries as the depth of
\* the node, none of them twice, and ends with the transaction of the
\* node; the account path has one entry more than the depth and, for a
\* node of depth greater than 1, ends with the sender of the node.
C28_PathShape ==
    AuditServed =>
      /\ \A k \in DOMAIN rows["getFundLegitimacyTrail"] :
            LET ft == rows["getFundLegitimacyTrail"][k]
            IN  /\ ft.trail_depth >= 1
                /\ Len(ft.transaction_path) = ft.trail_depth
                /\ NoRepeat(ft.transaction_path)
                /\ Last(ft.transaction_path) = ft.transactionid
                /\ Len(ft.user_path) = ft.trail_depth + 1
                /\ ft.trail_depth > 1 => Last(ft.user_path) = ft.senderid
      /\ \A i \in DOMAIN Report.fundLegitimacyTrail :
            LET node == Report.fundLegitimacyTrail[i]
            IN  /\ Len(node.transactionPath) = node.trailDepth
                /\ NoRepeat(node.transactionPath)
                /\ Last(node.transactionPath) = node.transactionId
                /\ Len(node.userPath) = node.trailDepth + 1
                /\ node.trailDepth > 1 => Last(node.userPath) = node.senderId

\* A report with a node of depth 3 and a depth-1 node whose account path
\* ends with the receiver, not the sender.
C28_Witness ==
    /\ AuditServed
    /\ \E i, j \in DOMAIN Report.fundLegitimacyTrail :
          LET deep == Report.fundLegitimacyTrail[i]
              seed == Report.fundLegitimacyTrail[j]
          IN  /\ deep.trailDepth = RecursionDepth
              /\ Len(deep.userPath) = RecursionDepth + 1
              /\ seed.trailDepth = 1
              /\ Last(seed.userPath) # seed.senderId


-----------------------------------------------------------------------------
(* The history against the summary *)

\* C29: in every audit report with a history that is not empty, the
\* running balance of the most recent entry of the history, one of latest
\* timestamp, is the calculated balance of the summary, whatever the
\* number of transactions of the account.
C29_LatestRunningBalanceIsCalculated ==
    AuditServed =>
      LET history == Report.transactionHistory
      IN  \A i \in DOMAIN history :
             (\A j \in DOMAIN history : history[j].timestamp <= history[i].timestamp)
               => history[i].runningBalance = Report.summary.calculatedBalance


-----------------------------------------------------------------------------
(* The findings of one call *)

\* The messages of the six rules, in the order of the rules.
RuleOrder ==
    <<"Balance discrepancy detected", "Low fund legitimacy score",
      "High transaction volume detected", "High withdrawal-to-balance ratio detected",
      "High transaction frequency detected",
      "Multi-currency transactions with unverified sources detected">>

\* The place of a finding in the order of the rules.
RuleOf(finding) == CHOOSE k \in DOMAIN RuleOrder : RuleOrder[k] = finding.message[1]

\* C30: in the list returned by any call of generateRecommendations the
\* finding on high transaction frequency is present only together with
\* the finding on high transaction volume, both INFO; every finding is the
\* finding of one of the six rules, the findings stand in the order of the
\* rules, and no rule has two, so that there are at most six.
C30_FindingsOrderedFrequencyImpliesVolume ==
    pc = "returned" =>
      /\ FindingsOf(recommendations, "High transaction frequency detected") # <<>>
           => FindingsOf(recommendations, "High transaction volume detected") # <<>>
      /\ \A i \in DOMAIN recommendations :
            /\ \E k \in DOMAIN RuleOrder : RuleOrder[k] = recommendations[i].message[1]
            /\ recommendations[i].message[1]
                 \in {"High transaction frequency detected",
                      "High transaction volume detected"}
                 => recommendations[i].type = "INFO"
      /\ \A i, j \in DOMAIN recommendations :
            i < j => RuleOf(recommendations[i]) < RuleOf(recommendations[j])
      /\ Len(recommendations) <= Len(RuleOrder)

\* A call in which all six rules fire.
C30_Witness ==
    /\ pc = "returned"
    /\ Len(recommendations) = Len(RuleOrder)
    /\ FindingsOf(recommendations, "High transaction frequency detected") # <<>>
    /\ call.metrics.totalTransactions = MaxTransactions

====
